---------------------------- MODULE Spec2Model ----------------------------
(***************************************************************************)
(* Model of the prompt-orchestration layer of the reporter simulator:      *)
(* retryRequest (bounded exponential backoff on HTTP 429) and the three    *)
(* entry points generateRandomArticle, analyzeArticle and                  *)
(* generateReplyReaction, each a single-shot flow                          *)
(*   Building -> Requesting -> Validating -> Success | DegradedFallback.   *)
(*                                                                         *)
(* JavaScript values are encoded as follows.                               *)
(*   "undefined"      the value undefined (an absent property)             *)
(*   "n429", "n500"   the numbers 429 and 500                              *)
(*   "s429"           the string "429" (not === 429)                       *)
(*   a JSON value     [t |-> "null"], [t |-> "array", items |-> <<..>>],   *)
(*                    [t |-> "object", f |-> record of the present keys]   *)
(* The Korean string literals of the source are named by ASCII tokens; the *)
(* comment at each token quotes the literal.                               *)
(***************************************************************************)
EXTENDS Integers, Sequences, FiniteSets, TLC

VARIABLES
    op,            \* the function being called
    article,       \* the Article passed by the caller
    originalComment, \* the Comment passed to generateReplyReaction
    currentYear,   \* new Date().getFullYear() at the time of the call
    pc,            \* position of the orchestrator flow
    prompt,        \* the prompt built by the flow
    maxRetries,    \* retryRequest: the `retries` argument of the outermost call
    initialDelay,  \* retryRequest: the `delay` argument of the outermost call
    retries,       \* retryRequest: `retries` of the current recursion level
    delay,         \* retryRequest: `delay` of the current recursion level
    rpc,           \* retryRequest: "idle", "calling", "waiting" or "settled"
    attempts,      \* what each requestFn invocation produced, in order
    waits,         \* the setTimeout delays awaited so far, in order
    outstanding,   \* requestFn invocations whose promise has not settled
    settled,       \* how the promise of the outermost retryRequest settled
    completion,    \* how the orchestrator function completed
    eraCall,       \* getEraContext alone: the latest call and its result
    eraPrev,       \* getEraContext alone: the call before the latest
    calls,         \* concurrent calls: the state of each call in flight
    editor         \* ArticleEditor: its state, its props and its pending work

vars == <<op, article, originalComment, currentYear, pc, prompt, maxRetries,
          initialDelay, retries, delay, rpc, attempts, waits, outstanding,
          settled, completion, eraCall, eraPrev, calls, editor>>

retryVars == <<maxRetries, initialDelay, retries, delay, rpc, attempts, waits,
               outstanding, settled>>

\* the state of the specifications that exercise getEraContext alone,
\* several calls at once and the editor
sideVars == <<eraCall, eraPrev, calls, editor>>

-----------------------------------------------------------------------------
(* Bounds and program constants                                            *)

\* largest `retries` argument tried when retryRequest is exercised directly
MaxRetriesArg == 4

\* retryRequest's default parameters: retries = 3, delay = 2000
DefaultRetries == 3
DefaultDelay == 2000

\* `delay` arguments tried when retryRequest is exercised directly
DelayArgs == {1, 3, DefaultDelay}

Undefined == "undefined"

-----------------------------------------------------------------------------
(* The provider: what one invocation of requestFn can produce              *)

\* Shapes of a value thrown by requestFn.  nullish: the thrown value is null
\* or undefined, so every optional-chained read of it yields undefined.
ErrorShape(n, s, c, m) ==
    [nullish |-> n, status |-> s, code |-> c, message |-> m]

ErrorShapes ==
    { ErrorShape(FALSE, "n429", Undefined, "mOther"),    \* {status: 429}
      ErrorShape(FALSE, Undefined, "n429", "mOther"),    \* {code: 429}
      ErrorShape(FALSE, Undefined, Undefined, "m429"),   \* Error("... 429 ...")
      ErrorShape(FALSE, "n500", Undefined, "mOther"),    \* {status: 500}
      ErrorShape(FALSE, "s429", Undefined, "mOther"),    \* {status: "429"}
      ErrorShape(FALSE, Undefined, Undefined, "mOther"), \* Error("network")
      ErrorShape(FALSE, Undefined, Undefined, Undefined),\* {}
      ErrorShape(TRUE, Undefined, Undefined, Undefined) }\* null

\* An error value: its shape and the requestFn invocation that threw it
\* (object identity: two attempts never throw the same object).
Errors(n) == { [id |-> n, shape |-> s] : s \in ErrorShapes }

\* response.text of a GenerateContentResponse: undefined, the empty string, or
\* a non-empty text.  The non-empty texts are named by what they spell.
Texts ==
    { Undefined, "",
      "{oops",              \* not JSON
      "null", "[]", "{}",
      "[reply]",            \* [{username, content, likes}]
      "{article}",          \* {title, content, category: a member}
      "{article:economy}",  \* {title, content, category: another member}
      "{article:weather}",  \* {title, content, category: not a member}
      "{article:nocat}",    \* {title, content}
      "{article:notitle}",  \* {content, category}
      "{simulation}",       \* every SimulationResult field
      "{simulation:part}" } \* a SimulationResult without comments

Responses == { [text |-> x] : x \in Texts }

ProviderOutcomes(n) ==
    { [ok |-> TRUE, response |-> r, error |-> Undefined] : r \in Responses }
    \cup
    { [ok |-> FALSE, response |-> Undefined, error |-> e] : e \in Errors(n) }

-----------------------------------------------------------------------------
(* retryRequest                                                            *)

\* error?.message?.includes('429')
MessageIncludes429(message) == message = "m429"

\* error?.status === 429 || error?.code === 429 || error?.message?.includes('429')
IsRateLimitMutantNoCode(error) ==
    \/ error.shape.status = "n429"
    \/ MessageIncludes429(error.shape.message)
IsRateLimit(error) ==
    \/ error.shape.status = "n429"
    \/ error.shape.code = "n429"
    \/ MessageIncludes429(error.shape.message)

\* the condition of the catch block's if: retries > 0 && (...)
ShouldRetryMutantOffByOne(r, error) == r > 1 /\ IsRateLimit(error)
ShouldRetryMutantAnyError(r, error) == r > 0
ShouldRetryMutantNoBudget(r, error) == IsRateLimit(error)
ShouldRetry(r, error) == r > 0 /\ IsRateLimit(error)

\* the arguments of the recursive call: retries - 1, delay * 2
NextRetries(r) == r - 1
NextDelayMutantLinear(d) == d + DefaultDelay
NextDelay(d) == d * 2

Pending == [kind |-> "pending"]
Fulfilled(v) == [kind |-> "fulfilled", value |-> v]
Rejected(e) == [kind |-> "rejected", reason |-> e]

\* what the catch block rethrows: the caught error itself
Rethrown(error) == error

\* requestFn() is invoked: the provider request is in flight
RequestStartMutantNoAwait ==
    /\ rpc \in {"calling", "waiting"}
    /\ rpc' = "inflight"
    /\ outstanding' = outstanding + 1
    /\ retries' = IF rpc = "waiting" THEN retries - 1 ELSE retries
    /\ delay' = IF rpc = "waiting" THEN delay * 2 ELSE delay
    /\ UNCHANGED <<op, article, originalComment, currentYear, pc, prompt,
                   maxRetries, initialDelay, attempts, waits, settled,
                   completion>>
    /\ UNCHANGED sideVars
RequestStart ==
    /\ rpc = "calling"
    /\ rpc' = "inflight"
    /\ outstanding' = outstanding + 1
    /\ UNCHANGED <<op, article, originalComment, currentYear, pc, prompt,
                   maxRetries, initialDelay, retries, delay, attempts, waits,
                   settled, completion>>
    /\ UNCHANGED sideVars

\* try { return await requestFn() } catch (error) { if (...) {...} throw error }
\* the promise of requestFn settles
RequestFn ==
    /\ rpc = "inflight"
    /\ outstanding' = outstanding - 1
    /\ \E o \in ProviderOutcomes(Len(attempts) + 1) :
          /\ attempts' = Append(attempts, o)
          /\ IF o.ok
               THEN /\ rpc' = "settled"
                    /\ settled' = Fulfilled(o.response)
               ELSE IF ShouldRetry(retries, o.error)
                      THEN /\ rpc' = "waiting"
                           /\ settled' = settled
                      ELSE /\ rpc' = "settled"
                           /\ settled' = Rejected(Rethrown(o.error))
    /\ UNCHANGED <<op, article, originalComment, currentYear, pc, prompt,
                   maxRetries, initialDelay, retries, delay, waits, completion>>
    /\ UNCHANGED sideVars

\* await new Promise(resolve => setTimeout(resolve, delay));
\* return retryRequest(requestFn, retries - 1, delay * 2);
TimerFires ==
    /\ rpc = "waiting"
    /\ waits' = Append(waits, delay)
    /\ retries' = NextRetries(retries)
    /\ delay' = NextDelay(delay)
    /\ rpc' = "calling"
    /\ UNCHANGED <<op, article, originalComment, currentYear, pc, prompt,
                   maxRetries, initialDelay, attempts, outstanding, settled,
                   completion>>
    /\ UNCHANGED sideVars

-----------------------------------------------------------------------------
(* Values shared by the three entry points                                 *)

\* types.ts: the string enum ArticleCategory (its values, as Object.values
\* lists them)
ArticleCategory ==
    { "POLITICS", "ECONOMY", "SOCIETY", "ENTERTAINMENT", "TECH", "SPORTS",
      "OPINION" }

\* ArticleCategory.SOCIETY
SOCIETY == "SOCIETY"

\* An optional string field: absent (undefined), or its characters.
Absent == [present |-> FALSE, chars |-> <<>>]
Str(chars) == [present |-> TRUE, chars |-> chars]

\* truthiness of an optional string: undefined and "" are falsy
TruthyString(x) == x.present /\ x.chars # <<>>

\* an Article, field by field
Article(em, cr, fk, tm, ty, title, prev) ==
    [title |-> title, content |-> "content", category |-> SOCIETY,
     author |-> "author", isEmergencyMode |-> em, isCrazyMode |-> cr,
     isFakeNews |-> fk, isTimeMachineMode |-> tm, targetYear |-> ty,
     previousArticleContext |-> prev]

\* the values new Date().getFullYear() takes in the model
CurrentYears == {2024, 2030}

\* the articles a caller passes to an entry point
Articles ==
    { Article(em, cr, fk, e[1], e[2], "title", Absent) :
        em \in BOOLEAN, cr \in BOOLEAN, fk \in BOOLEAN,
        e \in { <<FALSE, Absent>>,
                <<TRUE, Str(<<"1", "9", "9", "5">>)>>,
                <<TRUE, Str(<<"a", "b", "c">>)>> } }

\* the Comment a caller passes to generateReplyReaction
Comments ==
    { [username |-> "user", content |-> "comment", platform |-> "platform"] }

NoComment == [username |-> "", content |-> "", platform |-> ""]

-----------------------------------------------------------------------------
(* getEraContext                                                           *)

\* a JavaScript number that is an integer, or NaN
NaN == [nan |-> TRUE, n |-> 0]
Num(k) == [nan |-> FALSE, n |-> k]

\* x < k and x > k: false when x is NaN
Less(x, k) == ~x.nan /\ x.n < k
Greater(x, k) == ~x.nan /\ x.n > k

Digits == {"0", "1", "2", "3", "4", "5", "6", "7", "8", "9"}

DigitValue(c) ==
    CASE c = "0" -> 0 [] c = "1" -> 1 [] c = "2" -> 2 [] c = "3" -> 3
      [] c = "4" -> 4 [] c = "5" -> 5 [] c = "6" -> 6 [] c = "7" -> 7
      [] c = "8" -> 8 [] c = "9" -> 9

RECURSIVE SkipSpaces(_)
SkipSpaces(cs) ==
    IF cs # <<>> /\ Head(cs) = " " THEN SkipSpaces(Tail(cs)) ELSE cs

\* the value of the longest prefix of digits; NaN when there is none
RECURSIVE DigitsPrefix(_, _, _)
DigitsPrefix(cs, acc, any) ==
    IF cs # <<>> /\ Head(cs) \in Digits
      THEN DigitsPrefix(Tail(cs), 10 * acc + DigitValue(Head(cs)), TRUE)
      ELSE IF any THEN Num(acc) ELSE NaN

\* parseInt(string): leading white space is skipped, a sign is read, then
\* the digits up to the first other character
ParseInt(cs) ==
    LET t == SkipSpaces(cs)
    IN  IF t # <<>> /\ Head(t) = "-"
          THEN LET v == DigitsPrefix(Tail(t), 0, FALSE)
               IN  IF v.nan THEN NaN ELSE Num(0 - v.n)
          ELSE IF t # <<>> /\ Head(t) = "+"
                 THEN DigitsPrefix(Tail(t), 0, FALSE)
                 ELSE DigitsPrefix(t, 0, FALSE)

\* article.isTimeMachineMode && article.targetYear
\*   ? parseInt(article.targetYear) : currentYear
TargetYear(a) ==
    IF a.isTimeMachineMode /\ TruthyString(a.targetYear)
      THEN ParseInt(a.targetYear.chars)
      ELSE Num(currentYear)

\* a directive that names the year: `${targetYear}년도 ...`
Era(band, year) == [band |-> band, year |-> year]

\* the four ifs and the final return inside if (article.isTimeMachineMode)
\*   pre1990   "...인터넷이 없으므로 신문 투고, 라디오 사연, 대자보 ..."
\*   pc1990s   "...PC통신 시대(하이텔, 천리안) 말투 ..."
\*   web2000s  "...싸이월드/초기 인터넷 감성 ..."
\*   future    "...미래 시대입니다."
\*   reflect   "...의 시대상을 반영하세요."
EraBandMutantInclusive(targetYear) ==
    IF Less(targetYear, 1991) THEN Era("pre1990", targetYear)
    ELSE IF Less(targetYear, 2000) THEN Era("pc1990s", targetYear)
    ELSE IF Less(targetYear, 2010) THEN Era("web2000s", targetYear)
    ELSE IF Greater(targetYear, currentYear + 5) THEN Era("future", targetYear)
    ELSE Era("reflect", targetYear)
EraBand(targetYear) ==
    IF Less(targetYear, 1990) THEN Era("pre1990", targetYear)
    ELSE IF Less(targetYear, 2000) THEN Era("pc1990s", targetYear)
    ELSE IF Less(targetYear, 2010) THEN Era("web2000s", targetYear)
    ELSE IF Greater(targetYear, currentYear + 5) THEN Era("future", targetYear)
    ELSE Era("reflect", targetYear)

\* "현대(2024년)의 인터넷 댓글 말투를 사용하세요."
Contemporary == [band |-> "contemporary"]

getEraContextMutantYearSwitches(a) ==
    IF a.isTimeMachineMode \/ TruthyString(a.targetYear)
      THEN EraBand(TargetYear(a))
      ELSE Contemporary
getEraContextMutantReadsMode(a) ==
    IF a.isTimeMachineMode
      THEN EraBand(TargetYear(a))
      ELSE IF a.isEmergencyMode THEN Era("reflect", Num(currentYear))
           ELSE Contemporary
getEraContext(a) ==
    IF a.isTimeMachineMode THEN EraBand(TargetYear(a)) ELSE Contemporary

JsonNull == [t |-> "null"]
JsonArray(items) == [t |-> "array", items |-> items]
JsonObject(f) == [t |-> "object", f |-> f]

ReplyItem == JsonObject([username |-> "u", content |-> "c", likes |-> 1])

FullSimulation ==
    [viralityScore |-> 70, reliabilityScore |-> 40, controversyScore |-> 90,
     publicSentiment |-> "mixed", editorFeedback |-> "feedback",
     impactSummary |-> "impact", viewCountEstimate |-> 1000, shareCount |-> 10,
     stockAnalysis |-> <<"index">>,
     extraIndices |-> [nationalAnxiety |-> 1, economicStability |-> 2,
                       angerIndex |-> 3],
     otherMediaCoverage |-> <<"coverage">>, comments |-> <<"comment">>]

PartSimulation ==
    [viralityScore |-> 70, reliabilityScore |-> 40, controversyScore |-> 90,
     publicSentiment |-> "mixed", editorFeedback |-> "feedback",
     impactSummary |-> "impact", viewCountEstimate |-> 1000, shareCount |-> 10]

SyntaxError == [ok |-> FALSE, value |-> JsonNull]
Parsed(v) == [ok |-> TRUE, value |-> v]

\* JSON.parse(text): the value the text spells, or a SyntaxError
JSONParse(text) ==
    CASE text = "null" -> Parsed(JsonNull)
      [] text = "[]" -> Parsed(JsonArray(<<>>))
      [] text = "{}" -> Parsed(JsonObject(<<>>))
      [] text = "[reply]" -> Parsed(JsonArray(<<ReplyItem>>))
      [] text = "{article}" ->
            Parsed(JsonObject([title |-> "T", content |-> "C",
                               category |-> "POLITICS"]))
      [] text = "{article:economy}" ->
            Parsed(JsonObject([title |-> "T", content |-> "C",
                               category |-> "ECONOMY"]))
      [] text = "{article:weather}" ->
            Parsed(JsonObject([title |-> "T", content |-> "C",
                               category |-> "WEATHER"]))
      [] text = "{article:nocat}" ->
            Parsed(JsonObject([title |-> "T", content |-> "C"]))
      [] text = "{article:notitle}" ->
            Parsed(JsonObject([content |-> "C", category |-> "SOCIETY"]))
      [] text = "{simulation}" -> Parsed(JsonObject(FullSimulation))
      [] text = "{simulation:part}" -> Parsed(JsonObject(PartSimulation))
      [] OTHER -> SyntaxError

\* if (response.text): undefined and "" are falsy
Truthy(text) == text \notin {Undefined, ""}

\* data.key: undefined when data has no such property (reading a property of
\* null throws, which the caller of Get decides first)
Get(data, key) ==
    IF data.t = "object" /\ key \in DOMAIN data.f THEN data.f[key] ELSE Undefined

Return(v) == [kind |-> "return", value |-> v]
Throw(e) == [kind |-> "throw", error |-> e]
NewError(name) == [id |-> 0, name |-> name]

\* retryRequest<GenerateContentResponse>(() => ai.models.generateContent(...)):
\* the call uses the default parameters
CallRetryRequest ==
    /\ rpc' = "calling"
    /\ maxRetries' = DefaultRetries
    /\ initialDelay' = DefaultDelay
    /\ retries' = DefaultRetries
    /\ delay' = DefaultDelay
    /\ UNCHANGED <<attempts, waits, outstanding, settled>>

\* const response = await retryRequest(...): the await resumes with a response
AwaitResponseMutantRetryEmpty(o) ==
    /\ op = o
    /\ pc = "Requesting"
    /\ rpc = "settled"
    /\ settled.kind = "fulfilled"
    /\ IF Truthy(settled.value.text)
         THEN /\ pc' = "Validating"
              /\ UNCHANGED <<rpc, settled>>
         ELSE /\ pc' = "Requesting"
              /\ rpc' = "calling"
              /\ settled' = Pending
    /\ UNCHANGED <<op, article, originalComment, currentYear, prompt,
                   completion, maxRetries, initialDelay, retries, delay,
                   attempts, waits, outstanding>>
    /\ UNCHANGED sideVars
AwaitResponse(o) ==
    /\ op = o
    /\ pc = "Requesting"
    /\ rpc = "settled"
    /\ settled.kind = "fulfilled"
    /\ pc' = "Validating"
    /\ UNCHANGED <<op, article, originalComment, currentYear, prompt,
                   completion>>
    /\ UNCHANGED retryVars
    /\ UNCHANGED sideVars

-----------------------------------------------------------------------------
(* generateRandomArticle                                                   *)

\* let modeInstruction = ...; if ... else if ... else if ...
\*   random:default    "일반적인 뉴스 기사를 랜덤한 주제로 작성하세요."
\*   random:emergency  "국가 비상사태, 전쟁, 재난 등 ... 속보를 작성하세요."
\*   random:crazy      "논리적으로 말이 안 되거나, ... 기괴한 내용의 기사를 ..."
\*   random:fakeNews   "사실이 아닌 내용을 ... 선동성 가짜 뉴스를 작성하세요."
RandomModeInstructionMutantCrazyFirst(a) ==
    IF a.isCrazyMode THEN "random:crazy"
    ELSE IF a.isEmergencyMode THEN "random:emergency"
    ELSE IF a.isFakeNews THEN "random:fakeNews"
    ELSE "random:default"
RandomModeInstruction(a) ==
    IF a.isEmergencyMode THEN "random:emergency"
    ELSE IF a.isCrazyMode THEN "random:crazy"
    ELSE IF a.isFakeNews THEN "random:fakeNews"
    ELSE "random:default"

\* the prompt template: the mode directives it embeds, in order
RandomPromptMutantWithTitle(a) ==
    [era |-> getEraContext(a), modes |-> <<RandomModeInstruction(a)>>,
     title |-> a.title]
RandomPrompt(a) ==
    [era |-> getEraContext(a), modes |-> <<RandomModeInstruction(a)>>]

\* let category = ArticleCategory.SOCIETY;
\* if (Object.values(ArticleCategory).includes(catStr)) category = catStr;
CoerceCategoryMutantPassThrough(catStr) == catStr
CoerceCategory(catStr) ==
    IF catStr \in ArticleCategory THEN catStr ELSE SOCIETY

\* the catch block's return value:
\*   title "기사 생성 실패", content "AI 연결 상태를 확인해주세요."
RandomFallback ==
    JsonObject([title |-> "title:generation-failed",
                content |-> "content:check-ai-connection",
                category |-> SOCIETY])

\* the try block after the await: if (response.text) {...} throw new Error(...)
RandomTryMutantNoThrowOnEmpty(response) ==
    IF Truthy(response.text)
      THEN LET parsed == JSONParse(response.text)
               data == parsed.value
           IN  IF ~parsed.ok THEN Throw(NewError("SyntaxError"))
               ELSE IF data.t = "null" THEN Throw(NewError("TypeError"))
               ELSE Return(JsonObject(
                        [title |-> Get(data, "title"),
                         content |-> Get(data, "content"),
                         category |-> CoerceCategory(Get(data, "category"))]))
      ELSE Return(JsonObject([title |-> Undefined, content |-> Undefined,
                              category |-> SOCIETY]))
RandomTry(response) ==
    IF Truthy(response.text)
      THEN LET parsed == JSONParse(response.text)
               data == parsed.value
           IN  IF ~parsed.ok THEN Throw(NewError("SyntaxError"))
               ELSE IF data.t = "null" THEN Throw(NewError("TypeError"))
               ELSE Return(JsonObject(
                        [title |-> Get(data, "title"),
                         content |-> Get(data, "content"),
                         category |-> CoerceCategory(Get(data, "category"))]))
      ELSE Throw(NewError("No text generated"))

\* catch (e) { console.error(...); return {...} }
RandomCatchMutantRethrow(e) == Throw(e)
RandomCatch(e) == Return(RandomFallback)

GenerateRandomArticle_Build ==
    /\ op = "generateRandomArticle"
    /\ pc = "Building"
    /\ prompt' = RandomPrompt(article)
    /\ pc' = "Requesting"
    /\ CallRetryRequest
    /\ UNCHANGED <<op, article, originalComment, currentYear, completion>>
    /\ UNCHANGED sideVars

GenerateRandomArticle_Response == AwaitResponse("generateRandomArticle")

GenerateRandomArticle_Validate ==
    /\ op = "generateRandomArticle"
    /\ pc = "Validating"
    /\ LET body == RandomTry(settled.value)
       IN  IF body.kind = "return"
             THEN /\ completion' = body
                  /\ pc' = "Success"
             ELSE /\ completion' = RandomCatch(body.error)
                  /\ pc' = "DegradedFallback"
    /\ UNCHANGED <<op, article, originalComment, currentYear, prompt>>
    /\ UNCHANGED retryVars
    /\ UNCHANGED sideVars

\* the await rethrows retryRequest's rejection inside the try block
GenerateRandomArticle_Rejected ==
    /\ op = "generateRandomArticle"
    /\ pc = "Requesting"
    /\ rpc = "settled"
    /\ settled.kind = "rejected"
    /\ completion' = RandomCatch(settled.reason)
    /\ pc' = "DegradedFallback"
    /\ UNCHANGED <<op, article, originalComment, currentYear, prompt>>
    /\ UNCHANGED retryVars
    /\ UNCHANGED sideVars

-----------------------------------------------------------------------------
(* analyzeArticle                                                          *)

\* const modeInstructions = []; three ifs that push; the default is pushed
\* when modeInstructions.length === 0
\*   analysis:emergency  "[모드: 국가 비상사태/언론 독점]" ...
\*   analysis:crazy      "[모드: 미친 기자]" ...
\*   analysis:fakeNews   "[모드: 가짜 뉴스/선동]" ...
\*   analysis:default    "[일반 모드]" ...
AnalysisModeInstructionsMutantExclusive(a) ==
    IF a.isEmergencyMode THEN <<"analysis:emergency">>
    ELSE IF a.isCrazyMode THEN <<"analysis:crazy">>
    ELSE IF a.isFakeNews THEN <<"analysis:fakeNews">>
    ELSE <<"analysis:default">>
AnalysisModeInstructions(a) ==
    LET m1 == IF a.isEmergencyMode THEN <<"analysis:emergency">> ELSE <<>>
        m2 == IF a.isCrazyMode THEN Append(m1, "analysis:crazy") ELSE m1
        m3 == IF a.isFakeNews THEN Append(m2, "analysis:fakeNews") ELSE m2
    IN  IF Len(m3) = 0 THEN <<"analysis:default">> ELSE m3

\* x >= k: false when x is NaN
GreaterEq(x, k) == ~x.nan /\ x.n >= k

\* let eraContextFull = ""; if (article.isTimeMachineMode) {...} else {...}
\* each block of the time machine opens with "[시대 설정: ${targetYear}년]",
\* the other one with "[시대 설정: 현재]"
EraContextFullMutantExclusive1990(a) ==
    LET targetYear == TargetYear(a)
    IN  IF a.isTimeMachineMode
          THEN IF Less(targetYear, 1990)
                 THEN Era("analysis:pre1990", targetYear)
               ELSE IF Greater(targetYear, 1990) /\ Less(targetYear, 2000)
                 THEN Era("analysis:pc1990s", targetYear)
               ELSE IF GreaterEq(targetYear, 2000) /\ Less(targetYear, 2010)
                 THEN Era("analysis:web2000s", targetYear)
               ELSE IF Greater(targetYear, currentYear + 5)
                 THEN Era("analysis:future", targetYear)
               ELSE Era("analysis:reflect", targetYear)
          ELSE [band |-> "analysis:present"]
EraContextFull(a) ==
    LET targetYear == TargetYear(a)
    IN  IF a.isTimeMachineMode
          THEN IF Less(targetYear, 1990)
                 THEN Era("analysis:pre1990", targetYear)
               ELSE IF GreaterEq(targetYear, 1990) /\ Less(targetYear, 2000)
                 THEN Era("analysis:pc1990s", targetYear)
               ELSE IF GreaterEq(targetYear, 2000) /\ Less(targetYear, 2010)
                 THEN Era("analysis:web2000s", targetYear)
               ELSE IF Greater(targetYear, currentYear + 5)
                 THEN Era("analysis:future", targetYear)
               ELSE Era("analysis:reflect", targetYear)
          ELSE [band |-> "analysis:present"]

\* const previousContext = article.previousArticleContext ? `...` : "";
PreviousContext(a) ==
    IF TruthyString(a.previousArticleContext)
      THEN a.previousArticleContext ELSE Str(<<>>)

\* the prompt template: what it interpolates, with
\* ${modeInstructions.join('\n')} as the directives in order
AnalysisPrompt(a) ==
    [era |-> EraContextFull(a), previousContext |-> PreviousContext(a),
     title |-> a.title, category |-> a.category, content |-> a.content,
     author |-> a.author, modes |-> AnalysisModeInstructions(a)]

\* the catch block's return value:
\*   editorFeedback "시스템 오류: AI 응답 지연. 잠시 후 다시 시도해주세요."
\*   impactSummary  "데이터 전송 실패."
AnalysisFallbackMutantWithStocks ==
    JsonObject([viralityScore |-> 0, reliabilityScore |-> 0,
                controversyScore |-> 0, publicSentiment |-> "Error",
                editorFeedback |-> "feedback:system-error-retry-later",
                impactSummary |-> "impact:data-transfer-failed",
                viewCountEstimate |-> 0, shareCount |-> 0,
                comments |-> <<>>, otherMediaCoverage |-> <<>>,
                stockAnalysis |-> <<>>])
AnalysisFallback ==
    JsonObject([viralityScore |-> 0, reliabilityScore |-> 0,
                controversyScore |-> 0, publicSentiment |-> "Error",
                editorFeedback |-> "feedback:system-error-retry-later",
                impactSummary |-> "impact:data-transfer-failed",
                viewCountEstimate |-> 0, shareCount |-> 0,
                comments |-> <<>>, otherMediaCoverage |-> <<>>])

\* if (response.text) return JSON.parse(response.text) as SimulationResult;
\* else throw new Error("No response text generated");
AnalyzeTry(response) ==
    IF Truthy(response.text)
      THEN LET parsed == JSONParse(response.text)
           IN  IF ~parsed.ok THEN Throw(NewError("SyntaxError"))
               ELSE Return(parsed.value)
      ELSE Throw(NewError("No response text generated"))

\* catch (error) { console.error(...); return {...} }
AnalyzeCatch(e) == Return(AnalysisFallback)

AnalyzeArticle_BuildMutantNormalisesYear ==
    /\ op = "analyzeArticle"
    /\ pc = "Building"
    /\ prompt' = AnalysisPrompt(article)
    /\ article' = [article EXCEPT !.targetYear = Str(<<"2", "0", "2", "4">>)]
    /\ pc' = "Requesting"
    /\ CallRetryRequest
    /\ UNCHANGED <<op, originalComment, currentYear, completion>>
    /\ UNCHANGED sideVars
AnalyzeArticle_Build ==
    /\ op = "analyzeArticle"
    /\ pc = "Building"
    /\ prompt' = AnalysisPrompt(article)
    /\ pc' = "Requesting"
    /\ CallRetryRequest
    /\ UNCHANGED <<op, article, originalComment, currentYear, completion>>
    /\ UNCHANGED sideVars

AnalyzeArticle_Response == AwaitResponse("analyzeArticle")

AnalyzeArticle_ValidateMutantAwaitAgain ==
    /\ op = "analyzeArticle"
    /\ pc = "Validating"
    /\ LET body == AnalyzeTry(settled.value)
       IN  IF body.kind = "return"
             THEN /\ completion' = body
                  /\ pc' = "Success"
             ELSE /\ completion' = completion
                  /\ pc' = "Requesting"
    /\ UNCHANGED <<op, article, originalComment, currentYear, prompt>>
    /\ UNCHANGED retryVars
    /\ UNCHANGED sideVars
AnalyzeArticle_Validate ==
    /\ op = "analyzeArticle"
    /\ pc = "Validating"
    /\ LET body == AnalyzeTry(settled.value)
       IN  IF body.kind = "return"
             THEN /\ completion' = body
                  /\ pc' = "Success"
             ELSE /\ completion' = AnalyzeCatch(body.error)
                  /\ pc' = "DegradedFallback"
    /\ UNCHANGED <<op, article, originalComment, currentYear, prompt>>
    /\ UNCHANGED retryVars
    /\ UNCHANGED sideVars

AnalyzeArticle_Rejected ==
    /\ op = "analyzeArticle"
    /\ pc = "Requesting"
    /\ rpc = "settled"
    /\ settled.kind = "rejected"
    /\ completion' = AnalyzeCatch(settled.reason)
    /\ pc' = "DegradedFallback"
    /\ UNCHANGED <<op, article, originalComment, currentYear, prompt>>
    /\ UNCHANGED retryVars
    /\ UNCHANGED sideVars

-----------------------------------------------------------------------------
(* generateReplyReaction                                                   *)

\* the "모드 상태:" lines of the prompt: one annotation per flag, or ""
\*   reply:emergency "- [국가 비상사태]", reply:crazy "- [미친 기자 취급]",
\*   reply:fakeNews "- [가짜 뉴스 논란]"
ReporterReply == "reply"

ReplyPrompt(a, c) ==
    [era |-> getEraContext(a),
     modes |-> << IF a.isEmergencyMode THEN "reply:emergency" ELSE "",
                  IF a.isCrazyMode THEN "reply:crazy" ELSE "",
                  IF a.isFakeNews THEN "reply:fakeNews" ELSE "" >>,
     title |-> a.title, username |-> c.username, content |-> c.content,
     platform |-> c.platform, reporterReply |-> ReporterReply]

\* if (response.text) return JSON.parse(response.text) as Reply[];
\* return [];
ReplyTry(response) ==
    IF Truthy(response.text)
      THEN LET parsed == JSONParse(response.text)
           IN  IF ~parsed.ok THEN Throw(NewError("SyntaxError"))
               ELSE Return(parsed.value)
      ELSE Return(JsonArray(<<>>))

\* catch (e) { console.error(...); return []; }
ReplyCatch(e) == Return(JsonArray(<<>>))

GenerateReplyReaction_Build ==
    /\ op = "generateReplyReaction"
    /\ pc = "Building"
    /\ prompt' = ReplyPrompt(article, originalComment)
    /\ pc' = "Requesting"
    /\ CallRetryRequest
    /\ UNCHANGED <<op, article, originalComment, currentYear, completion>>
    /\ UNCHANGED sideVars

GenerateReplyReaction_Response == AwaitResponse("generateReplyReaction")

\* a response without text ends in the placeholder [], like a failure
GenerateReplyReaction_Validate ==
    /\ op = "generateReplyReaction"
    /\ pc = "Validating"
    /\ LET body == ReplyTry(settled.value)
       IN  IF body.kind = "return"
             THEN /\ completion' = body
                  /\ pc' = IF Truthy(settled.value.text)
                             THEN "Success" ELSE "DegradedFallback"
             ELSE /\ completion' = ReplyCatch(body.error)
                  /\ pc' = "DegradedFallback"
    /\ UNCHANGED <<op, article, originalComment, currentYear, prompt>>
    /\ UNCHANGED retryVars
    /\ UNCHANGED sideVars

GenerateReplyReaction_Rejected ==
    /\ op = "generateReplyReaction"
    /\ pc = "Requesting"
    /\ rpc = "settled"
    /\ settled.kind = "rejected"
    /\ completion' = ReplyCatch(settled.reason)
    /\ pc' = "DegradedFallback"
    /\ UNCHANGED <<op, article, originalComment, currentYear, prompt>>
    /\ UNCHANGED retryVars
    /\ UNCHANGED sideVars

-----------------------------------------------------------------------------
(* One call of an entry point                                              *)

NoPrompt == [modes |-> <<>>]
NoCompletion == [kind |-> "pending"]

NoEraCall == [made |-> FALSE]
NoCalls == <<>>
NoEditor == [mounted |-> FALSE]

Init ==
    /\ op \in {"generateRandomArticle", "analyzeArticle",
               "generateReplyReaction"}
    /\ article \in Articles
    /\ originalComment \in
         (IF op = "generateReplyReaction" THEN Comments ELSE {NoComment})
    /\ currentYear \in CurrentYears
    /\ outstanding = 0
    /\ eraCall = NoEraCall
    /\ eraPrev = NoEraCall
    /\ calls = NoCalls
    /\ editor = NoEditor
    /\ pc = "Building"
    /\ prompt = NoPrompt
    /\ maxRetries = DefaultRetries
    /\ initialDelay = DefaultDelay
    /\ retries = DefaultRetries
    /\ delay = DefaultDelay
    /\ rpc = "idle"
    /\ attempts = <<>>
    /\ waits = <<>>
    /\ settled = Pending
    /\ completion = NoCompletion

Next ==
    \/ GenerateRandomArticle_Build
    \/ GenerateRandomArticle_Response
    \/ GenerateRandomArticle_Validate
    \/ GenerateRandomArticle_Rejected
    \/ AnalyzeArticle_Build
    \/ AnalyzeArticle_Response
    \/ AnalyzeArticle_Validate
    \/ AnalyzeArticle_Rejected
    \/ GenerateReplyReaction_Build
    \/ GenerateReplyReaction_Response
    \/ GenerateReplyReaction_Validate
    \/ GenerateReplyReaction_Rejected
    \/ RequestStart
    \/ RequestFn
    \/ TimerFires

Spec == Init /\ [][Next]_vars

\* the provider settles every request, every timer fires, and the event loop
\* resumes every continuation that is ready
LiveSpec == Init /\ [][Next]_vars /\ WF_vars(Next)

-----------------------------------------------------------------------------
(* retryRequest exercised directly, with arguments drawn from bounded sets *)

NoArticle == Article(FALSE, FALSE, FALSE, FALSE, Absent, "", Absent)

RetryInit ==
    /\ op = "retryRequest"
    /\ article = NoArticle
    /\ originalComment = NoComment
    /\ currentYear \in CurrentYears
    /\ outstanding = 0
    /\ eraCall = NoEraCall
    /\ eraPrev = NoEraCall
    /\ calls = NoCalls
    /\ editor = NoEditor
    /\ pc = "Requesting"
    /\ prompt = NoPrompt
    /\ maxRetries \in 0..MaxRetriesArg
    /\ initialDelay \in DelayArgs
    /\ retries = maxRetries
    /\ delay = initialDelay
    /\ rpc = "calling"
    /\ attempts = <<>>
    /\ waits = <<>>
    /\ settled = Pending
    /\ completion = NoCompletion

RetryNext == RequestStart \/ RequestFn \/ TimerFires

RetrySpec == RetryInit /\ [][RetryNext]_vars

-----------------------------------------------------------------------------
(* getEraContext exercised directly, twice, with inputs drawn from bounded *)
(* sets; the second call is not earlier than the first                     *)

\* the targetYear values tried: absent, "", texts parseInt cannot read,
\* texts it reads in part, and the years around each band boundary
EraTargetYears ==
    { Absent, Str(<<>>),
      Str(<<"a", "b", "c">>),
      Str(<<"1", "9", "9", "5", "a">>),
      Str(<<" ", "1", "9", "8", "9">>),
      Str(<<"-", "5">>),
      Str(<<"1", "9", "8", "9">>), Str(<<"1", "9", "9", "0">>),
      Str(<<"1", "9", "9", "9">>), Str(<<"2", "0", "0", "0">>),
      Str(<<"2", "0", "0", "9">>), Str(<<"2", "0", "1", "0">>),
      Str(<<"2", "0", "2", "4">>), Str(<<"2", "0", "2", "8">>),
      Str(<<"2", "0", "2", "9">>), Str(<<"2", "0", "3", "0">>),
      Str(<<"2", "0", "3", "4">>), Str(<<"2", "0", "3", "5">>),
      Str(<<"2", "0", "3", "6">>) }

EraArticles ==
    { Article(em, FALSE, FALSE, tm, ty, "title", Absent) :
        em \in BOOLEAN, tm \in BOOLEAN, ty \in EraTargetYears }

EraInit ==
    /\ op = "getEraContext"
    /\ article = NoArticle
    /\ originalComment = NoComment
    /\ currentYear \in CurrentYears
    /\ pc = "Building"
    /\ prompt = NoPrompt
    /\ maxRetries = DefaultRetries
    /\ initialDelay = DefaultDelay
    /\ retries = DefaultRetries
    /\ delay = DefaultDelay
    /\ rpc = "idle"
    /\ attempts = <<>>
    /\ waits = <<>>
    /\ outstanding = 0
    /\ settled = Pending
    /\ completion = NoCompletion
    /\ eraCall = NoEraCall
    /\ eraPrev = NoEraCall
    /\ calls = NoCalls
    /\ editor = NoEditor

\* getEraContext(article), called when the calendar shows currentYear'
GetEraContext_Call ==
    /\ op = "getEraContext"
    /\ ~eraPrev.made
    /\ \E a \in EraArticles, y \in CurrentYears :
          /\ y >= currentYear
          /\ article' = a
          /\ currentYear' = y
          /\ eraCall' = [made |-> TRUE, article |-> a, year |-> y,
                         result |-> getEraContext(a)']
    /\ eraPrev' = eraCall
    /\ UNCHANGED <<op, originalComment, pc, prompt, completion, calls,
                   editor>>
    /\ UNCHANGED retryVars

\* the era selection at the head of analyzeArticle, for the article and the
\* calendar year of the latest getEraContext call
AnalyzeArticle_EraContext ==
    /\ op = "getEraContext"
    /\ eraCall.made
    /\ prompt = NoPrompt
    /\ prompt' = [modes |-> <<>>, era |-> EraContextFull(article),
                  of |-> eraCall]
    /\ UNCHANGED <<op, article, originalComment, currentYear, pc, completion>>
    /\ UNCHANGED retryVars
    /\ UNCHANGED sideVars

EraNext == GetEraContext_Call \/ AnalyzeArticle_EraContext

EraSpec == EraInit /\ [][EraNext]_vars

-----------------------------------------------------------------------------
(* Several calls in flight at once.  The module keeps no mutable state of  *)
(* its own (its only binding is `const ai`): `retries` and `delay` are     *)
(* parameters of each retryRequest invocation, the prompt and the result   *)
(* are locals of each entry-point invocation.  Every await (requestFn, the *)
(* timer) suspends only the invocation that awaits.                        *)

CallIds == {"a", "b"}

ConcArticles ==
    { Article(FALSE, FALSE, FALSE, FALSE, Absent, "title", Absent),
      Article(TRUE, FALSE, FALSE, TRUE, Str(<<"1", "9", "9", "5">>), "title",
              Absent) }

ConcTexts == {Undefined, "{oops", "{article}"}

ConcOutcomes(n) ==
    { o \in ProviderOutcomes(n) :
        IF o.ok
          THEN o.response.text \in ConcTexts
          ELSE o.error.shape \in
                 { ErrorShape(FALSE, "n429", Undefined, "mOther"),
                   ErrorShape(FALSE, "n500", Undefined, "mOther") } }

\* a call that has just been made: nothing of its body has run yet
NewCall(o, a, c) ==
    [ op |-> o, article |-> a, comment |-> c, pc |-> "Building",
      prompt |-> NoPrompt, retries |-> DefaultRetries,
      delay |-> DefaultDelay, rpc |-> "idle", attempts |-> <<>>,
      waits |-> <<>>, settled |-> Pending, completion |-> NoCompletion ]

PromptOf(o, a, c) ==
    CASE o = "generateRandomArticle" -> RandomPrompt(a)
      [] o = "analyzeArticle" -> AnalysisPrompt(a)
      [] o = "generateReplyReaction" -> ReplyPrompt(a, c)

TryOf(o, response) ==
    CASE o = "generateRandomArticle" -> RandomTry(response)
      [] o = "analyzeArticle" -> AnalyzeTry(response)
      [] o = "generateReplyReaction" -> ReplyTry(response)

CatchOf(o, e) ==
    CASE o = "generateRandomArticle" -> RandomCatch(e)
      [] o = "analyzeArticle" -> AnalyzeCatch(e)
      [] o = "generateReplyReaction" -> ReplyCatch(e)

\* requestFn of call c settles with outcome o
CallSettles(c, o) ==
    IF o.ok
      THEN [c EXCEPT !.attempts = Append(@, o), !.rpc = "settled",
                     !.settled = Fulfilled(o.response)]
      ELSE IF ShouldRetry(c.retries, o.error)
             THEN [c EXCEPT !.attempts = Append(@, o), !.rpc = "waiting"]
             ELSE [c EXCEPT !.attempts = Append(@, o), !.rpc = "settled",
                            !.settled = Rejected(Rethrown(o.error))]

\* the text check and the parse of call c, with the catch block
CallValidates(c) ==
    LET body == TryOf(c.op, c.settled.value)
    IN  IF body.kind = "return"
          THEN [c EXCEPT !.completion = body,
                         !.pc = IF c.op = "generateReplyReaction"
                                   /\ ~Truthy(c.settled.value.text)
                                  THEN "DegradedFallback" ELSE "Success"]
          ELSE [c EXCEPT !.completion = CatchOf(c.op, body.error),
                         !.pc = "DegradedFallback"]

\* the steps call c can take next, each the same as the action of that name
\* of a single call
CallSteps(c) ==
    (IF c.pc = "Building"
       THEN {[c EXCEPT !.prompt = PromptOf(c.op, c.article, c.comment),
                       !.pc = "Requesting", !.rpc = "calling"]}
       ELSE {})
    \cup
    (IF c.rpc = "calling" THEN {[c EXCEPT !.rpc = "inflight"]} ELSE {})
    \cup
    (IF c.rpc = "inflight"
       THEN {CallSettles(c, o) : o \in ConcOutcomes(Len(c.attempts) + 1)}
       ELSE {})
    \cup
    (IF c.rpc = "waiting"
       THEN {[c EXCEPT !.waits = Append(@, c.delay),
                       !.retries = NextRetries(@),
                       !.delay = NextDelay(@),
                       !.rpc = "calling"]}
       ELSE {})
    \cup
    (IF c.pc = "Requesting" /\ c.rpc = "settled"
          /\ c.settled.kind = "fulfilled"
       THEN {[c EXCEPT !.pc = "Validating"]}
       ELSE {})
    \cup
    (IF c.pc = "Requesting" /\ c.rpc = "settled"
          /\ c.settled.kind = "rejected"
       THEN {[c EXCEPT !.completion = CatchOf(c.op, c.settled.reason),
                       !.pc = "DegradedFallback"]}
       ELSE {})
    \cup
    (IF c.pc = "Validating" THEN {CallValidates(c)} ELSE {})

ConcInit ==
    /\ op = "concurrent"
    /\ article = NoArticle
    /\ originalComment = NoComment
    /\ currentYear \in CurrentYears
    /\ calls \in
         [ CallIds ->
             { NewCall(o, a, IF o = "generateReplyReaction"
                               THEN CHOOSE c \in Comments : TRUE
                               ELSE NoComment) :
                 o \in {"generateRandomArticle", "analyzeArticle",
                        "generateReplyReaction"},
                 a \in ConcArticles } ]
    /\ outstanding = 0
    /\ eraCall = NoEraCall
    /\ eraPrev = NoEraCall
    /\ editor = NoEditor
    /\ pc = "Building"
    /\ prompt = NoPrompt
    /\ maxRetries = DefaultRetries
    /\ initialDelay = DefaultDelay
    /\ retries = DefaultRetries
    /\ delay = DefaultDelay
    /\ rpc = "idle"
    /\ attempts = <<>>
    /\ waits = <<>>
    /\ settled = Pending
    /\ completion = NoCompletion

\* the event loop runs one step of one call
ConcStepMutantSharedBudget(i) ==
    /\ op = "concurrent"
    /\ \E c \in CallSteps(calls[i]) :
          calls' = [ k \in CallIds |->
                       IF k = i
                         THEN c
                         ELSE [calls[k] EXCEPT !.retries = c.retries,
                                               !.delay = c.delay] ]
    /\ UNCHANGED <<op, article, originalComment, currentYear, pc, prompt,
                   completion, eraCall, eraPrev, editor>>
    /\ UNCHANGED retryVars
ConcStep(i) ==
    /\ op = "concurrent"
    /\ \E c \in CallSteps(calls[i]) : calls' = [calls EXCEPT ![i] = c]
    /\ UNCHANGED <<op, article, originalComment, currentYear, pc, prompt,
                   completion, eraCall, eraPrev, editor>>
    /\ UNCHANGED retryVars

ConcNext == \E i \in CallIds : ConcStep(i)

ConcSpec == ConcInit /\ [][ConcNext]_vars

-----------------------------------------------------------------------------
(* The request generateRandomArticle builds, for two articles side by side *)

\* config.responseSchema of the generateContent call: a literal
RandomSchema ==
    [properties |-> {"title", "content", "category"},
     required |-> <<"title", "content", "category">>]

\* the argument of ai.models.generateContent
RandomRequest(a) ==
    [contents |-> RandomPrompt(a), responseSchema |-> RandomSchema]

\* an article with one of its text fields replaced
Vary(a, field) ==
    CASE field = "none" -> a
      [] field = "title" -> [a EXCEPT !.title = "another title"]
      [] field = "content" -> [a EXCEPT !.content = "another content"]
      [] field = "author" -> [a EXCEPT !.author = "another author"]
      [] field = "category" ->
           [a EXCEPT !.category = CHOOSE c \in ArticleCategory : c # SOCIETY]
      [] field = "previousArticleContext" ->
           [a EXCEPT !.previousArticleContext = Str(<<"p">>)]

PromptArticles ==
    { Vary(Article(em, cr, fk, e[1], e[2], "title", Absent), field) :
        em \in BOOLEAN, cr \in BOOLEAN, fk \in BOOLEAN,
        e \in { <<FALSE, Absent>>,
                <<FALSE, Str(<<"1", "9", "9", "5">>)>>,
                <<TRUE, Str(<<"1", "9", "9", "5">>)>>,
                <<TRUE, Str(<<"a", "b", "c">>)>> },
        field \in {"none", "title", "content", "author", "category",
                   "previousArticleContext"} }

PromptInit ==
    /\ op = "randomRequest"
    /\ article = NoArticle
    /\ originalComment = NoComment
    /\ currentYear \in CurrentYears
    /\ calls \in
         [ CallIds ->
             { NewCall("generateRandomArticle", a, NoComment) :
                 a \in PromptArticles } ]
    /\ outstanding = 0
    /\ eraCall = NoEraCall
    /\ eraPrev = NoEraCall
    /\ editor = NoEditor
    /\ pc = "Building"
    /\ prompt = NoPrompt
    /\ maxRetries = DefaultRetries
    /\ initialDelay = DefaultDelay
    /\ retries = DefaultRetries
    /\ delay = DefaultDelay
    /\ rpc = "idle"
    /\ attempts = <<>>
    /\ waits = <<>>
    /\ settled = Pending
    /\ completion = NoCompletion

\* call i runs up to the generateContent call: its request is fixed
GenerateRandomArticle_Request(i) ==
    /\ op = "randomRequest"
    /\ calls[i].pc = "Building"
    /\ calls' = [calls EXCEPT
                   ![i] = [@ EXCEPT !.prompt = RandomRequest(calls[i].article),
                                    !.pc = "Requesting",
                                    !.rpc = "calling"]]
    /\ UNCHANGED <<op, article, originalComment, currentYear, pc, prompt,
                   completion, eraCall, eraPrev, editor>>
    /\ UNCHANGED retryVars

PromptNext == \E i \in CallIds : GenerateRandomArticle_Request(i)

PromptSpec == PromptInit /\ [][PromptNext]_vars

-----------------------------------------------------------------------------
(* ArticleEditor: the component and its random-article button.  `article`  *)
(* is the React state the parent hands down with setArticle; isSimulating  *)
(* is a prop the parent controls.  An event handler runs to its first      *)
(* await as one step, and the continuation after the await as another.     *)

\* edits of the form tried in one behaviour
MaxEdits == 2

\* the article state the editor is mounted with
EditorArticles ==
    { [Article(FALSE, FALSE, FALSE, FALSE, Absent, "", Absent)
         EXCEPT !.content = ""],
      Article(TRUE, FALSE, FALSE, TRUE, Str(<<"1", "9", "9", "5">>), "title",
              Str(<<"p">>)) }

\* onChange of the form's inputs: the field and the value typed or chosen
EditorInputs ==
    { <<"title", "typed title">>,
      <<"author", "typed author">>,
      <<"isTimeMachineMode", FALSE>>,
      <<"targetYear", Str(<<"2", "0", "3", "6">>)>> }

\* the target-year input is rendered while the time machine is on and is
\* never disabled; every other input is disabled while isSimulating
InputEnabled(field) ==
    IF field = "targetYear" THEN article.isTimeMachineMode
                            ELSE ~editor.isSimulating

\* the latest run of the updater passed to setArticle: none yet
NoMerge == [made |-> FALSE]

\* what one call of generateRandomArticle completes with when the last
\* invocation of requestFn produced `last`
RandomCompletion(last) ==
    IF last.ok
      THEN LET body == RandomTry(last.response)
           IN  IF body.kind = "return" THEN body
                                       ELSE RandomCatch(body.error)
      ELSE RandomCatch(last.error)

RandomCompletions == { RandomCompletion(o) : o \in ProviderOutcomes(1) }

\* disabled={isSimulating || isGeneratingRandom}
RandomButtonDisabledMutantOnlySimulating == editor.isSimulating
RandomButtonDisabled == editor.isSimulating \/ editor.isGeneratingRandom

\* setArticle(prev => ({...prev, ...randomContent})): prev is the state at
\* merge time, snapshot the article the handler was called with
MergeRandomContentMutantStale(prev, snapshot, randomContent) ==
    [ k \in DOMAIN snapshot \cup DOMAIN randomContent.f |->
        IF k \in DOMAIN randomContent.f THEN randomContent.f[k]
                                        ELSE snapshot[k] ]
MergeRandomContent(prev, snapshot, randomContent) ==
    [ k \in DOMAIN prev \cup DOMAIN randomContent.f |->
        IF k \in DOMAIN randomContent.f THEN randomContent.f[k]
                                        ELSE prev[k] ]

EditorInit ==
    /\ op = "ArticleEditor"
    /\ article \in EditorArticles
    /\ editor = [mounted |-> TRUE, isGeneratingRandom |-> FALSE,
                 isSimulating |-> FALSE, inflight |-> <<>>,
                 merge |-> NoMerge, edits |-> 0]
    /\ originalComment = NoComment
    /\ currentYear = CHOOSE y \in CurrentYears :
                        \A z \in CurrentYears : y <= z
    /\ outstanding = 0
    /\ eraCall = NoEraCall
    /\ eraPrev = NoEraCall
    /\ calls = NoCalls
    /\ pc = "Building"
    /\ prompt = NoPrompt
    /\ maxRetries = DefaultRetries
    /\ initialDelay = DefaultDelay
    /\ retries = DefaultRetries
    /\ delay = DefaultDelay
    /\ rpc = "idle"
    /\ attempts = <<>>
    /\ waits = <<>>
    /\ settled = Pending
    /\ completion = NoCompletion

EditorFrame ==
    /\ UNCHANGED <<op, originalComment, currentYear, pc, prompt, completion,
                   eraCall, eraPrev, calls>>
    /\ UNCHANGED retryVars

\* handleChange(field, value)
HandleChange ==
    /\ op = "ArticleEditor"
    /\ editor.edits < MaxEdits
    /\ \E input \in EditorInputs :
          /\ InputEnabled(input[1])
          /\ article' = [article EXCEPT ![input[1]] = input[2]]
    /\ editor' = [editor EXCEPT !.edits = @ + 1]
    /\ EditorFrame

\* handleRewrite: the button is disabled while isSimulating or while title
\* and content are both empty; confirm() answers either way
HandleRewrite ==
    /\ op = "ArticleEditor"
    /\ ~editor.isSimulating
    /\ Truthy(article.title) \/ Truthy(article.content)
    /\ \E confirmed \in BOOLEAN :
          article' = IF confirmed
                       THEN [article EXCEPT !.title = "", !.content = ""]
                       ELSE article
    /\ UNCHANGED editor
    /\ EditorFrame

\* handleRandomGenerate up to its await: confirm() when there is text, then
\* setIsGeneratingRandom(true) and the call generateRandomArticle(article)
HandleRandomGenerate ==
    /\ op = "ArticleEditor"
    /\ ~RandomButtonDisabled
    /\ \E confirmed \in BOOLEAN :
          IF (Truthy(article.title) \/ Truthy(article.content)) /\ ~confirmed
            THEN UNCHANGED editor
            ELSE editor' = [editor EXCEPT
                              !.isGeneratingRandom = TRUE,
                              !.inflight = Append(@, [snapshot |-> article])]
    /\ UNCHANGED article
    /\ EditorFrame

\* handleRandomGenerate after its await: the merge, or the alert of the
\* catch block, and the finally block
HandleRandomGenerate_Resume ==
    /\ op = "ArticleEditor"
    /\ \E i \in 1..Len(editor.inflight) : \E r \in RandomCompletions :
          /\ IF r.kind = "return"
               THEN article' = MergeRandomContent(
                                  article, editor.inflight[i].snapshot,
                                  r.value)
               ELSE article' = article
          /\ editor' = [editor EXCEPT
                          !.isGeneratingRandom = FALSE,
                          !.inflight = SubSeq(@, 1, i - 1)
                                         \o SubSeq(@, i + 1, Len(@)),
                          !.merge =
                             IF r.kind = "return"
                               THEN [made |-> TRUE, randomContent |-> r.value,
                                     snapshot |-> editor.inflight[i].snapshot,
                                     prev |-> article]
                               ELSE @]
    /\ EditorFrame

\* the parent starts or ends a simulation: the isSimulating prop changes
SetIsSimulating ==
    /\ op = "ArticleEditor"
    /\ editor' = [editor EXCEPT !.isSimulating = ~@]
    /\ UNCHANGED article
    /\ EditorFrame

EditorNext ==
    \/ HandleChange
    \/ HandleRewrite
    \/ HandleRandomGenerate
    \/ HandleRandomGenerate_Resume
    \/ SetIsSimulating

EditorSpec == EditorInit /\ [][EditorNext]_vars

-----------------------------------------------------------------------------
(* Vocabulary of the claims                                                *)

RECURSIVE Pow2(_)
Pow2(n) == IF n = 0 THEN 1 ELSE 2 * Pow2(n - 1)

RECURSIVE SumSeq(_)
SumSeq(s) == IF s = <<>> THEN 0 ELSE Head(s) + SumSeq(Tail(s))

\* the error carries a rate-limit signal: the number 429 as its status or as
\* its code, or a message containing '429'
CarriesSignal(error) ==
    /\ ~error.shape.nullish
    /\ \/ error.shape.status = "n429"
       \/ error.shape.code = "n429"
       \/ error.shape.message = "m429"

\* the first n invocations of requestFn all failed with a rate-limit signal
RateLimitedPrefix(n) ==
    /\ n <= Len(attempts)
    /\ \A i \in 1..n : ~attempts[i].ok /\ CarriesSignal(attempts[i].error)

\* the waits performed so far are initialDelay * 2^0, ..., initialDelay * 2^(k-1)
BackoffWaits(k) ==
    /\ Len(waits) = k
    /\ \A i \in 1..k : waits[i] = initialDelay * Pow2(i - 1)

LastAttempt == attempts[Len(attempts)]

-----------------------------------------------------------------------------
(* C2: when requestFn fails with a rate-limit signal exactly K times and   *)
(* then succeeds, K < maxRetries, retryRequest fulfils with that success   *)
(* value, has invoked requestFn exactly K+1 times and has performed        *)
(* exactly K waits, of initialDelay*2^0, ..., initialDelay*2^(K-1).        *)
C2_RetryThenSuccess ==
    \A K \in 0..(maxRetries - 1) :
        ( /\ Len(attempts) = K + 1
          /\ RateLimitedPrefix(K)
          /\ attempts[K + 1].ok )
        => /\ rpc = "settled"
           /\ settled = Fulfilled(attempts[K + 1].response)
           /\ BackoffWaits(K)

C2_Witness ==
    /\ maxRetries = 4
    /\ initialDelay = DefaultDelay
    /\ Len(attempts) = 4
    /\ RateLimitedPrefix(3)
    /\ attempts[4].ok
    /\ settled.kind = "fulfilled"
    /\ waits = <<2000, 4000, 8000>>

(* C3: when requestFn fails with an error that carries no rate-limit       *)
(* signal, retryRequest rejects with that very error, without a wait after *)
(* it and without invoking requestFn again, whatever `retries` is.         *)
C3_OtherErrorSurfaces ==
    ( /\ attempts # <<>>
      /\ ~LastAttempt.ok
      /\ ~CarriesSignal(LastAttempt.error) )
    => /\ rpc = "settled"
       /\ settled = Rejected(LastAttempt.error)
       /\ Len(waits) = Len(attempts) - 1
       /\ (Len(attempts) = 1 => waits = <<>>)

C3_Witness ==
    /\ Len(attempts) = 1
    /\ ~LastAttempt.ok
    /\ ~CarriesSignal(LastAttempt.error)
    /\ retries = 3
    /\ settled.kind = "rejected"
    /\ waits = <<>>

(* C4: when requestFn always fails with a rate-limit signal, it is invoked *)
(* exactly maxRetries+1 times, exactly maxRetries waits are performed and  *)
(* retryRequest then rejects with the error of the last attempt; nothing   *)
(* is surfaced before that; with retries = 3 and delay = 2000 the waits    *)
(* are 2000, 4000 and 8000 ms, 14000 ms in total.                          *)
C4_RetryBudget ==
    RateLimitedPrefix(Len(attempts))
    => /\ Len(attempts) <= maxRetries + 1
       /\ Len(attempts) <= maxRetries => settled = Pending
       /\ Len(attempts) = maxRetries + 1
            => /\ rpc = "settled"
               /\ settled = Rejected(LastAttempt.error)
               /\ BackoffWaits(maxRetries)
               /\ (maxRetries = 3 /\ initialDelay = 2000)
                    => /\ waits = <<2000, 4000, 8000>>
                       /\ SumSeq(waits) = 14000

C4_Witness ==
    /\ maxRetries = 3
    /\ initialDelay = 2000
    /\ Len(attempts) = 4
    /\ RateLimitedPrefix(4)
    /\ settled.kind = "rejected"
    /\ SumSeq(waits) = 14000

-----------------------------------------------------------------------------
(* Vocabulary of the claims about the entry points                         *)

Terminal == pc \in {"Success", "DegradedFallback"}

\* retryRequest rejected: the retry budget was exhausted or the error
\* carried no rate-limit signal
RequestFailed == settled.kind = "rejected"

\* the provider answered, without text
EmptyText ==
    /\ settled.kind = "fulfilled"
    /\ settled.value.text \in {Undefined, ""}

HasText ==
    /\ settled.kind = "fulfilled"
    /\ settled.value.text \notin {Undefined, ""}

\* the provider answered with a text that is not JSON
ParseFailed == HasText /\ ~JSONParse(settled.value.text).ok

\* the provider answered with a text that is JSON
ParsedText == HasText /\ JSONParse(settled.value.text).ok

Data == JSONParse(settled.value.text).value

FlowFailed == RequestFailed \/ EmptyText \/ ParseFailed

RandomKeys == {"title", "content", "category"}

\* the keys the fallback of analyzeArticle carries
SimulationKeys ==
    {"viralityScore", "reliabilityScore", "controversyScore",
     "publicSentiment", "editorFeedback", "impactSummary",
     "viewCountEstimate", "shareCount", "comments", "otherMediaCoverage"}

\* the keys the response schemas list as required
RequiredKeys(o) ==
    IF o = "generateRandomArticle" THEN RandomKeys
    ELSE SimulationKeys \cup {"stockAnalysis", "extraIndices"}

\* Partial<Article>, SimulationResult (stockAnalysis and extraIndices
\* optional), Reply[]
DeclaredShape(o, v) ==
    CASE o = "generateRandomArticle" ->
            v.t = "object" /\ DOMAIN v.f \subseteq RandomKeys
      [] o = "analyzeArticle" ->
            v.t = "object" /\ SimulationKeys \subseteq DOMAIN v.f
      [] o = "generateReplyReaction" -> v.t = "array"

-----------------------------------------------------------------------------
(* C1: whichever way the provider fails (rate limits until the budget is   *)
(* exhausted, another error, a response without text, a text that is not   *)
(* JSON), each entry point completes by returning a value of its declared  *)
(* shape; no entry point ever completes by throwing.                       *)
C1_NeverRaises ==
    /\ completion.kind # "throw"
    /\ Terminal =>
         /\ completion.kind = "return"
         /\ FlowFailed => DeclaredShape(op, completion.value)

C1_Witness ==
    /\ Terminal
    /\ op = "analyzeArticle"
    /\ RequestFailed
    /\ Len(attempts) = DefaultRetries + 1
    /\ completion.kind = "return"

(* C5: whenever generateRandomArticle fails, it returns exactly            *)
(* {title: "기사 생성 실패", content: "AI 연결 상태를 확인해주세요.",           *)
(* category: SOCIETY}, whatever the article and whatever the failure.      *)
C5_RandomFallback ==
    (op = "generateRandomArticle" /\ Terminal /\ FlowFailed)
    => /\ completion.kind = "return"
       /\ completion.value.t = "object"
       /\ DOMAIN completion.value.f = RandomKeys
       /\ completion.value.f.title = "title:generation-failed"
       /\ completion.value.f.content = "content:check-ai-connection"
       /\ completion.value.f.category = "SOCIETY"

C5_Witness ==
    /\ op = "generateRandomArticle"
    /\ Terminal
    /\ EmptyText
    /\ article.isEmergencyMode
    /\ completion.value.f.title = "title:generation-failed"

(* C6: whenever analyzeArticle fails, the result has the five numeric      *)
(* fields at 0, comments and otherMediaCoverage empty, the fixed error     *)
(* strings in editorFeedback and impactSummary, and neither stockAnalysis  *)
(* nor extraIndices.                                                       *)
C6_AnalysisFallback ==
    (op = "analyzeArticle" /\ Terminal /\ FlowFailed)
    => /\ completion.kind = "return"
       /\ completion.value.t = "object"
       /\ LET r == completion.value.f
          IN  /\ DOMAIN r = SimulationKeys
              /\ r.viralityScore = 0
              /\ r.reliabilityScore = 0
              /\ r.controversyScore = 0
              /\ r.viewCountEstimate = 0
              /\ r.shareCount = 0
              /\ r.comments = <<>>
              /\ r.otherMediaCoverage = <<>>
              /\ r.editorFeedback = "feedback:system-error-retry-later"
              /\ r.impactSummary = "impact:data-transfer-failed"
              /\ "stockAnalysis" \notin DOMAIN r
              /\ "extraIndices" \notin DOMAIN r

C6_Witness ==
    /\ op = "analyzeArticle"
    /\ Terminal
    /\ ParseFailed
    /\ completion.value.f.viralityScore = 0
    /\ completion.value.f.comments = <<>>

(* C7: generateReplyReaction returns a sequence in every outcome: the      *)
(* parsed array when there was text, the empty sequence when there was     *)
(* none or when anything failed; never null, also when the text parses to  *)
(* a value that is no array.                                               *)
C7_ReplyAlwaysSequence ==
    (op = "generateReplyReaction" /\ Terminal)
    => /\ completion.kind = "return"
       /\ completion.value.t = "array"
       /\ FlowFailed => completion.value.items = <<>>

(* C8: a text that parses but lacks a required field, or is no object,     *)
(* makes analyzeArticle and generateRandomArticle return their fallback:   *)
(* no result is built from such a payload.                                 *)
C8_MalformedPayloadFallsBack ==
    ( /\ op \in {"generateRandomArticle", "analyzeArticle"}
      /\ Terminal
      /\ ParsedText
      /\ ~(Data.t = "object" /\ RequiredKeys(op) \subseteq DOMAIN Data.f) )
    => /\ pc = "DegradedFallback"
       /\ completion.kind = "return"
       /\ completion.value.t = "object"
       /\ IF op = "generateRandomArticle"
            THEN completion.value.f.title = "title:generation-failed"
            ELSE /\ "editorFeedback" \in DOMAIN completion.value.f
                 /\ completion.value.f.editorFeedback
                      = "feedback:system-error-retry-later"

(* C9: on a parsed response, generateRandomArticle returns SOCIETY for     *)
(* every category string that is no member of ArticleCategory and the      *)
(* string itself for every member; an unknown category is no failure:      *)
(* title and content are those of the response.                            *)
C9_CategoryCoercion ==
    ( /\ op = "generateRandomArticle"
      /\ Terminal
      /\ ParsedText
      /\ Data.t = "object"
      /\ "category" \in DOMAIN Data.f )
    => /\ pc = "Success"
       /\ completion.kind = "return"
       /\ completion.value.t = "object"
       /\ completion.value.f.category
            = (IF Data.f.category \in ArticleCategory
                 THEN Data.f.category ELSE "SOCIETY")
       /\ completion.value.f.title = Get(Data, "title")
       /\ completion.value.f.content = Get(Data, "content")

C9_Witness ==
    /\ op = "generateRandomArticle"
    /\ pc = "Success"
    /\ ParsedText
    /\ Data.t = "object"
    /\ "category" \in DOMAIN Data.f
    /\ Data.f.category = "WEATHER"
    /\ completion.value.f.category = "SOCIETY"
    /\ completion.value.f.title = "T"

(* C10: generateRandomArticle puts exactly one mode directive into its     *)
(* prompt, chosen by priority: emergency, else crazy, else fake news, else *)
(* the default.                                                            *)
C10_RandomModePriority ==
    (op = "generateRandomArticle" /\ pc # "Building")
    => /\ Len(prompt.modes) = 1
       /\ article.isEmergencyMode => prompt.modes[1] = "random:emergency"
       /\ (~article.isEmergencyMode /\ article.isCrazyMode)
            => prompt.modes[1] = "random:crazy"
       /\ (~article.isEmergencyMode /\ ~article.isCrazyMode
             /\ article.isFakeNews)
            => prompt.modes[1] = "random:fakeNews"
       /\ (~article.isEmergencyMode /\ ~article.isCrazyMode
             /\ ~article.isFakeNews)
            => prompt.modes[1] = "random:default"

C10_Witness ==
    /\ op = "generateRandomArticle"
    /\ pc = "Requesting"
    /\ article.isEmergencyMode
    /\ article.isCrazyMode
    /\ article.isFakeNews
    /\ prompt.modes = <<"random:emergency">>

-----------------------------------------------------------------------------
(* Vocabulary of the claims about the prompts                              *)

\* the directive d is in the mode section of the prompt
InModes(d) == \E i \in DOMAIN prompt.modes : prompt.modes[i] = d

\* the place of a directive of analyzeArticle in the order emergency, crazy,
\* fake news
ModeRank(d) ==
    CASE d = "analysis:emergency" -> 1
      [] d = "analysis:crazy" -> 2
      [] d = "analysis:fakeNews" -> 3
      [] OTHER -> 4

(* C11: analyzeArticle builds its mode section additively: the directive   *)
(* of every set flag is present, in the order emergency, crazy, fake news, *)
(* no directive of an unset flag is present, and the default directive is  *)
(* present exactly when no flag is set.                                    *)
C11_AnalysisModesAdditive ==
    (op = "analyzeArticle" /\ pc # "Building")
    => /\ article.isEmergencyMode <=> InModes("analysis:emergency")
       /\ article.isCrazyMode <=> InModes("analysis:crazy")
       /\ article.isFakeNews <=> InModes("analysis:fakeNews")
       /\ InModes("analysis:default")
            <=> ( /\ ~article.isEmergencyMode
                  /\ ~article.isCrazyMode
                  /\ ~article.isFakeNews )
       /\ \A i, j \in DOMAIN prompt.modes :
            i < j => ModeRank(prompt.modes[i]) < ModeRank(prompt.modes[j])

C11_Witness ==
    /\ op = "analyzeArticle"
    /\ pc = "Requesting"
    /\ article.isEmergencyMode
    /\ article.isCrazyMode
    /\ article.isFakeNews
    /\ prompt.modes
         = <<"analysis:emergency", "analysis:crazy", "analysis:fakeNews">>

-----------------------------------------------------------------------------
(* Vocabulary of the claims about getEraContext                            *)

\* the latest call had the time machine on and a targetYear that parseInt
\* reads as a number
ParsedYearCall ==
    /\ eraCall.made
    /\ eraCall.article.isTimeMachineMode
    /\ TruthyString(eraCall.article.targetYear)
    /\ ~ParseInt(eraCall.article.targetYear.chars).nan

\* that number
ParsedYear == ParseInt(eraCall.article.targetYear.chars).n

\* the latest call had the time machine on and a targetYear that is absent,
\* empty or no number
UnreadableYearCall ==
    /\ eraCall.made
    /\ eraCall.article.isTimeMachineMode
    /\ \/ ~TruthyString(eraCall.article.targetYear)
       \/ ParseInt(eraCall.article.targetYear.chars).nan

(* C12: with the time machine on and a parsed target year Y, the directive *)
(* is the pre-1990 one iff Y < 1990, the 1990s one iff 1990 <= Y <= 1999,  *)
(* the 2000s one iff 2000 <= Y <= 2009, the future one iff                 *)
(* Y > currentYear + 5 and Y >= 2010, and the reflect-the-era one          *)
(* otherwise: 1989 pre-1990; 1990, 1999 1990s; 2000 2000s; currentYear+6   *)
(* future; currentYear+4 reflect.                                          *)
C12_EraBands ==
    ParsedYearCall
    => LET Y == ParsedYear
           cy == eraCall.year
           band == eraCall.result.band
       IN  /\ band = "pre1990" <=> Y < 1990
           /\ band = "pc1990s" <=> (1990 <= Y /\ Y <= 1999)
           /\ band = "web2000s" <=> (2000 <= Y /\ Y <= 2009)
           /\ band = "future" <=> (Y > cy + 5 /\ Y >= 2010)
           /\ band = "reflect" <=> (2010 <= Y /\ Y <= cy + 5)
           /\ Y = 1989 => band = "pre1990"
           /\ Y \in {1990, 1999} => band = "pc1990s"
           /\ Y = 2000 => band = "web2000s"
           /\ Y = cy + 6 => band = "future"
           /\ Y = cy + 4 => band = "reflect"

C12_Witness ==
    /\ ParsedYearCall
    /\ eraCall.year = 2030
    /\ ParsedYear = 2036
    /\ eraCall.result.band = "future"
    /\ eraPrev.made
    /\ eraPrev.article.targetYear = Str(<<"1", "9", "9", "0">>)
    /\ eraPrev.article.isTimeMachineMode
    /\ eraPrev.result.band = "pc1990s"

(* C13: with the time machine on, an absent or unparseable targetYear      *)
(* makes the resolver use the current calendar year: the directive and the *)
(* year it names are those of the current year.                            *)
C13_UnreadableYearIsCurrentYear ==
    UnreadableYearCall
    => /\ eraCall.result.band = "reflect"
       /\ eraCall.result.year = Num(eraCall.year)

(* C14: with the time machine off, getEraContext returns the one           *)
(* contemporary-tone directive, whatever targetYear and the other fields   *)
(* of the article are.                                                     *)
C14_ContemporaryWhenOff ==
    (eraCall.made /\ ~eraCall.article.isTimeMachineMode)
    => eraCall.result = [band |-> "contemporary"]

C14_Witness ==
    /\ eraCall.made
    /\ ~eraCall.article.isTimeMachineMode
    /\ eraCall.article.targetYear = Str(<<"1", "9", "8", "9">>)
    /\ eraCall.article.isEmergencyMode
    /\ eraCall.result.band = "contemporary"

(* C15: two calls with the same target year V and the same time-machine    *)
(* flag return the same directive, whatever else differs between them:     *)
(* the other fields of the article, and the calendar year of the call.     *)
C15_FunctionOfYearAndFlag ==
    ( /\ eraCall.made
      /\ eraPrev.made
      /\ eraCall.article.targetYear = eraPrev.article.targetYear
      /\ eraCall.article.isTimeMachineMode
           = eraPrev.article.isTimeMachineMode )
    => eraCall.result = eraPrev.result

(* C15, amended: two calls with the same target year V and the same        *)
(* time-machine flag, made in the same calendar year, return the same      *)
(* directive, whatever the other fields of the article are.                *)
C15_FunctionOfYearFlagAndClock ==
    ( /\ eraCall.made
      /\ eraPrev.made
      /\ eraCall.article.targetYear = eraPrev.article.targetYear
      /\ eraCall.article.isTimeMachineMode
           = eraPrev.article.isTimeMachineMode
      /\ eraCall.year = eraPrev.year )
    => eraCall.result = eraPrev.result

C15_Witness ==
    /\ eraCall.made
    /\ eraPrev.made
    /\ eraCall.article.targetYear = Str(<<"2", "0", "3", "0">>)
    /\ eraPrev.article.targetYear = Str(<<"2", "0", "3", "0">>)
    /\ eraCall.article.isTimeMachineMode
    /\ eraPrev.article.isTimeMachineMode
    /\ eraCall.year = eraPrev.year
    /\ eraCall.article.isEmergencyMode # eraPrev.article.isEmergencyMode
    /\ eraCall.result = eraPrev.result

-----------------------------------------------------------------------------
(* C16: once a provider request of a call has returned successfully, the   *)
(* call issues no further request and performs no wait: a response without *)
(* text or with a text that is not JSON goes straight to the fallback.     *)
C16_NoRequestAfterResponse ==
    /\ []( (Terminal /\ (EmptyText \/ ParseFailed))
           => /\ pc = "DegradedFallback"
              /\ attempts[Len(attempts)].ok
              /\ \A i \in 1..(Len(attempts) - 1) : ~attempts[i].ok )
    /\ [][ settled.kind = "fulfilled"
           => /\ attempts' = attempts
              /\ waits' = waits
              /\ outstanding' = 0
              /\ rpc' = "settled"
              /\ settled' = settled ]_vars

C16_Witness ==
    /\ pc = "DegradedFallback"
    /\ op = "generateRandomArticle"
    /\ ParseFailed
    /\ Len(attempts) = 2
    /\ Len(waits) = 1

(* C17: the states of a flow occur only in the order Building, Requesting, *)
(* Validating, terminal: Validating is entered only from Requesting after  *)
(* a request succeeded, Success only from Validating, DegradedFallback     *)
(* only from Requesting or Validating, and a terminal state is never left; *)
(* provider requests start only in Requesting.                             *)
C17_FlowOrder ==
    [][ /\ pc' # pc
          => \/ pc = "Building" /\ pc' = "Requesting"
             \/ /\ pc = "Requesting"
                /\ pc' = "Validating"
                /\ attempts # <<>>
                /\ attempts[Len(attempts)].ok
             \/ pc = "Requesting" /\ pc' = "DegradedFallback"
             \/ pc = "Validating" /\ pc' \in {"Success", "DegradedFallback"}
        /\ outstanding' > outstanding => pc = "Requesting" ]_vars

C17_Witness ==
    /\ pc = "Success"
    /\ op = "analyzeArticle"
    /\ Len(attempts) = 3
    /\ completion.kind = "return"

(* C18: within one call the attempts are strictly sequential: at most one  *)
(* provider request is outstanding, and attempt n+1 starts only after      *)
(* attempt n has failed with a rate-limit signal and the backoff wait      *)
(* that follows it has elapsed in full.                                    *)
C18_SequentialAttempts ==
    /\ [](outstanding <= 1)
    /\ [][ outstanding' > outstanding
           => /\ outstanding = 0
              /\ LET n == Len(attempts)
                 IN  n > 0
                     => /\ ~attempts[n].ok
                        /\ CarriesSignal(attempts[n].error)
                        /\ Len(waits) = n
                        /\ waits[n] = initialDelay * Pow2(n - 1) ]_vars

C18_Witness ==
    /\ outstanding = 1
    /\ Len(attempts) = 2
    /\ waits = <<3, 6>>

(* C20: no entry point writes to its inputs: every field of the article    *)
(* and of the comment keeps, until the call has completed, the value it    *)
(* had when the call started.                                              *)
C20_InputsNotMutated ==
    [][ article' = article /\ originalComment' = originalComment ]_vars

C20_Witness ==
    /\ Terminal
    /\ op = "generateReplyReaction"
    /\ originalComment \in Comments
    /\ article.isTimeMachineMode
    /\ article.targetYear = Str(<<"a", "b", "c">>)

(* C19: concurrent calls do not interfere: in every interleaving of two    *)
(* calls in flight, each call's remaining retries, current delay, prompt   *)
(* and result are determined by its own input and by the outcomes of its   *)
(* own provider requests, and a call suspended in a backoff wait does not  *)
(* keep another call from taking its next step.                            *)
ResultOf(o, last) ==
    IF last.ok
      THEN LET body == TryOf(o, last.response)
           IN  IF body.kind = "return" THEN body
                                       ELSE CatchOf(o, body.error)
      ELSE CatchOf(o, last.error)

\* the own rate-limit failures of call c whose backoff wait has elapsed
RetriedFailures(c) ==
    Cardinality({ k \in 1..Len(c.attempts) :
                    /\ ~c.attempts[k].ok
                    /\ CarriesSignal(c.attempts[k].error)
                    /\ (k < Len(c.attempts)
                          \/ c.rpc \in {"calling", "inflight"}) })

OwnState(c) ==
    /\ c.retries = DefaultRetries - RetriedFailures(c)
    /\ c.delay = DefaultDelay * Pow2(RetriedFailures(c))
    /\ c.pc # "Building" => c.prompt = PromptOf(c.op, c.article, c.comment)
    /\ c.pc \in {"Success", "DegradedFallback"}
         => c.completion = ResultOf(c.op, c.attempts[Len(c.attempts)])

C19_CallsDoNotInterfere ==
    /\ \A i \in CallIds : OwnState(calls[i])
    /\ \A i \in CallIds : \A j \in CallIds \ {i} :
          (/\ calls[i].rpc = "waiting"
           /\ calls[j].pc \notin {"Success", "DegradedFallback"})
             => ENABLED ConcStep(j)

C19_Witness ==
    /\ calls["a"].rpc = "waiting"
    /\ Len(calls["a"].waits) = 1
    /\ calls["b"].pc = "Success"
    /\ calls["b"].waits = <<>>
    /\ calls["b"].op = "analyzeArticle"

(* C21: retryRequest retries a failure if and only if retries remain       *)
(* (retries > 0) and the error carries a rate-limit signal: the status     *)
(* 429, the code 429, or a message containing '429'.  An error with none   *)
(* of the three, a null error included, is never retried, and with no      *)
(* retries left no error is retried: the failure is rethrown instead.      *)
C21_RetryableIff ==
    [][ (/\ Len(attempts') = Len(attempts) + 1
         /\ ~attempts'[Len(attempts')].ok)
        => LET error == attempts'[Len(attempts')].error
           IN  /\ (rpc' = "waiting") <=> (retries > 0 /\ CarriesSignal(error))
               /\ rpc' # "waiting"
                    => /\ rpc' = "settled"
                       /\ settled' = Rejected(error) ]_vars

C21_Witness ==
    /\ rpc = "waiting"
    /\ retries = 1
    /\ LastAttempt.error.shape.code = "n429"
    /\ LastAttempt.error.shape.status = Undefined
    /\ LastAttempt.error.shape.message = "mOther"

(* C22: every call of an entry point eventually reaches a terminal state   *)
(* (Success or DegradedFallback), given that every provider request        *)
(* completes and every backoff timer fires; with the default budget it     *)
(* has then made at most 4 provider requests and 3 waits.                  *)
C22_EventuallyTerminal ==
    /\ <>Terminal
    /\ [](/\ Len(attempts) <= DefaultRetries + 1
          /\ Len(waits) <= DefaultRetries)

C22_Witness ==
    /\ Terminal
    /\ Len(attempts) = 4
    /\ Len(waits) = 3
    /\ settled.kind = "fulfilled"

(* C23: the request of generateRandomArticle depends on the article only   *)
(* through its mode flags and its time-machine settings: two articles      *)
(* that agree on isEmergencyMode, isCrazyMode, isFakeNews,                 *)
(* isTimeMachineMode and targetYear give the same prompt and the same      *)
(* schema, whatever their title, content, author, category and             *)
(* previousArticleContext.                                                 *)
AgreeOnSettings(a, b) ==
    /\ a.isEmergencyMode = b.isEmergencyMode
    /\ a.isCrazyMode = b.isCrazyMode
    /\ a.isFakeNews = b.isFakeNews
    /\ a.isTimeMachineMode = b.isTimeMachineMode
    /\ a.targetYear = b.targetYear

C23_PromptIgnoresText ==
    \A i \in CallIds : \A j \in CallIds :
        (/\ op = "randomRequest"
         /\ calls[i].pc = "Requesting"
         /\ calls[j].pc = "Requesting"
         /\ AgreeOnSettings(calls[i].article, calls[j].article))
          => calls[i].prompt = calls[j].prompt

C23_Witness ==
    /\ op = "randomRequest"
    /\ calls["a"].pc = "Requesting"
    /\ calls["b"].pc = "Requesting"
    /\ AgreeOnSettings(calls["a"].article, calls["b"].article)
    /\ calls["a"].article.isTimeMachineMode
    /\ calls["a"].article.isCrazyMode
    /\ calls["a"].article.title # calls["b"].article.title

(* C24: the era band chosen inside analyzeArticle agrees with the band     *)
(* chosen by getEraContext for every input: for every value of the         *)
(* time-machine flag and every targetYear, absent and unreadable ones      *)
(* included, both pick the same one of the six cases (off, pre-1990,       *)
(* 1990s, 2000s, future, reflect-era).                                     *)
EraCase(era) ==
    CASE era.band \in {"contemporary", "analysis:present"} -> "off"
      [] era.band \in {"pre1990", "analysis:pre1990"} -> "pre-1990"
      [] era.band \in {"pc1990s", "analysis:pc1990s"} -> "1990s"
      [] era.band \in {"web2000s", "analysis:web2000s"} -> "2000s"
      [] era.band \in {"future", "analysis:future"} -> "future"
      [] era.band \in {"reflect", "analysis:reflect"} -> "reflect-era"

C24_SameEraCase ==
    (op = "getEraContext" /\ prompt # NoPrompt)
      => EraCase(prompt.era) = EraCase(prompt.of.result)

C24_Witness ==
    /\ op = "getEraContext"
    /\ prompt # NoPrompt
    /\ prompt.of.article.isTimeMachineMode
    /\ prompt.of.article.targetYear = Str(<<"a", "b", "c">>)
    /\ EraCase(prompt.era) = "reflect-era"

(* C25: random generation in the editor changes only title, content and    *)
(* category of the article state: the value generateRandomArticle returns  *)
(* has exactly those three keys, on success and on fallback, and           *)
(* handleRandomGenerate merges it over the latest state, so author, the    *)
(* four mode flags, targetYear and previousArticleContext keep the values  *)
(* they have at merge time, edits made during the generation included.     *)
OtherFields ==
    {"author", "isEmergencyMode", "isCrazyMode", "isFakeNews",
     "isTimeMachineMode", "targetYear", "previousArticleContext"}

C25_RandomChangesOnlyText ==
    /\ []( (op = "ArticleEditor" /\ editor.merge.made)
           => DOMAIN editor.merge.randomContent.f = RandomKeys )
    /\ [][ (/\ op = "ArticleEditor"
            /\ Len(editor'.inflight) < Len(editor.inflight))
           => /\ editor'.merge.made
              /\ editor'.merge.prev = article
              /\ DOMAIN article' = DOMAIN article
              /\ \A f \in OtherFields : article'[f] = article[f]
              /\ \A k \in RandomKeys :
                    article'[k] = editor'.merge.randomContent.f[k] ]_vars

C25_Witness ==
    /\ op = "ArticleEditor"
    /\ editor.merge.made
    /\ editor.inflight = <<>>
    /\ editor.merge.snapshot.author = "author"
    /\ editor.merge.prev.author = "typed author"
    /\ editor.merge.snapshot.isTimeMachineMode
    /\ ~editor.merge.prev.isTimeMachineMode
    /\ article.author = "typed author"
    /\ ~article.isTimeMachineMode
    /\ article.title = "title:generation-failed"

(* C26: in the editor isGeneratingRandom is true exactly while a random    *)
(* generation started by handleRandomGenerate is in flight, and it is      *)
(* false again when that generation completes by any outcome; the button   *)
(* being disabled while isGeneratingRandom or isSimulating, at most one    *)
(* random generation is in flight at any time and none is started while a  *)
(* simulation is running.                                                  *)
C26_OneGenerationAtATime ==
    /\ []( op = "ArticleEditor"
           => /\ editor.isGeneratingRandom <=> editor.inflight # <<>>
              /\ Len(editor.inflight) <= 1 )
    /\ [][ op = "ArticleEditor"
           => /\ Len(editor'.inflight) > Len(editor.inflight)
                   => /\ ~editor.isSimulating
                      /\ ~editor.isGeneratingRandom
                      /\ editor'.isGeneratingRandom
              /\ Len(editor'.inflight) < Len(editor.inflight)
                   => ~editor'.isGeneratingRandom ]_vars

C26_Witness ==
    /\ op = "ArticleEditor"
    /\ editor.isGeneratingRandom
    /\ Len(editor.inflight) = 1
    /\ editor.isSimulating
    /\ editor.merge.made
    /\ editor.inflight[1].snapshot.title = "title:generation-failed"

=============================================================================
